---- MODULE Spec2Model ----
(***************************************************************************)
(* Deadzone-aware frame distribution of the montage tools                  *)
(*   src/create_montage.claude.py  (prog = "claude")                       *)
(*   src/video_montage.dev.py      (prog = "dev", ALGORITHM 1 or 2)        *)
(* The deadzone store (load_deadzones, add_deadzone), the grid search      *)
(* (find_optimal_grid) and the recursive distribution (dist_images) are    *)
(* translated statement by statement.  Python's real-valued quantities     *)
(* (step, densities, ratios) are kept as exact fractions <<num, den>>.     *)
(***************************************************************************)
EXTENDS Integers, Sequences, FiniteSets, TLC

\* ------------------------------------------------------------------ bounds
\* TOTAL_FRAMES ranges over MinFrames..MaxFrames in Spec.
MinFrames == 2
MaxFrames == 5
\* The last frame of the video of SpecStore.
MaxStoreFrame == 10
\* AVAILABLE_FRAMES ranges over 0..MaxAvailable in SpecGrid.
MaxAvailable == 6
\* Python's recursion limit stands at 1000 frames; the model ends a run that
\* nests deeper than MaxDepth with RecursionError.  The runs of the code as it
\* is nest no deeper than 3 within these bounds.
MaxDepth == 4
\* The frame count of the video of SpecLong.
LongFrames == 6

VARIABLES
    prog,             \* which script runs: "claude" or "dev"
    mode,             \* "normal" (one montage), "interactive" (-i), "algo_test" (--algo-test)
    GRID,             \* the NxN | Nx | xN argument: [form, cols, rows]
    ASPECT_RATIO,     \* the W:H argument as <<W, H>>, <<>> when not given
    ALGORITHM,        \* --algorithm=N of the dev script (1 closed form, 2 exhaustive)
    TOTAL_FRAMES,     \* frame count of the video
    FRAME_WIDTH,      \* frame dimensions of the video
    FRAME_HEIGHT,
    WIDTH,            \* target aspect ratio WIDTH:HEIGHT
    HEIGHT,
    COLS,             \* the grid
    ROWS,
    TOTAL_IMAGES,     \* COLS * ROWS, Unbound before it is assigned
    AVAILABLE_FRAMES, \* set by load_deadzones
    deadzones,        \* in-memory list of <<start, end>>
    file,             \* DEADZONE_FILE: [exists, lines]
    image,            \* slot -> frame, image[i+1] is Python's image[i]
    iter,             \* dev: iter, claude: zone_id
    num_images,       \* loop variable of the --algo-test harness
    status,           \* "off", "menu", "algo_test", "done" or the error that ended the process;
                      \* in SpecGrid "grid" before the search and "searched" after it
    log,              \* what the last top-level dist_images did (calls, splits)
    last              \* the last operation; in SpecStore and SpecGrid also its arguments

vars == <<prog, mode, GRID, ASPECT_RATIO, ALGORITHM, TOTAL_FRAMES, FRAME_WIDTH,
          FRAME_HEIGHT, WIDTH, HEIGHT, COLS, ROWS, TOTAL_IMAGES, AVAILABLE_FRAMES,
          deadzones, file, image, iter, num_images, status, log, last>>

\* ------------------------------------------------------------- arithmetic
Min(a, b) == IF a <= b THEN a ELSE b
Max(a, b) == IF a >= b THEN a ELSE b
Abs(a) == IF a >= 0 THEN a ELSE -a

\* Python's a // b for b > 0 (floor), and int(a / b) for b > 0 (towards zero).
FloorDiv(a, b) == a \div b
TruncDiv(a, b) == IF a >= 0 THEN a \div b ELSE -((-a) \div b)

\* The value of a one-element set: Only({F(x) : x \in {e}}) is F(e) with e
\* computed once, before F looks at it.
Only(S) == CHOOSE v \in S : TRUE

RECURSIVE SumSeq(_)
SumSeq(s) == IF s = <<>> THEN 0 ELSE Head(s) + SumSeq(Tail(s))

\* --------------------------------------------- the persisted text format
\* A line of DEADZONE_FILE is the character sequence of f"{start}:{end}\n"
\* (the newline ends the line and is stripped on reading).
DigitChars == <<"0", "1", "2", "3", "4", "5", "6", "7", "8", "9">>

DigitChar(d) == DigitChars[d + 1]

CharDigit(c) == (CHOOSE k \in 1..10 : DigitChars[k] = c) - 1

\* str(n)
RECURSIVE NatChars(_)
NatChars(n) ==
    IF n < 10 THEN <<DigitChar(n)>>
    ELSE Append(NatChars(n \div 10), DigitChar(n % 10))

IntChars(n) == IF n < 0 THEN <<"-">> \o NatChars(-n) ELSE NatChars(n)

FormatLine(start, end) == IntChars(start) \o <<":">> \o IntChars(end)

RECURSIVE DigitsValue(_, _)
DigitsValue(cs, acc) ==
    IF cs = <<>> THEN acc
    ELSE DigitsValue(Tail(cs), 10 * acc + CharDigit(Head(cs)))

\* int(text) for a text made of an optional sign and digits
ParseInt(cs) ==
    IF cs # <<>> /\ Head(cs) = "-" THEN -DigitsValue(Tail(cs), 0)
    ELSE DigitsValue(cs, 0)

\* line.strip().split(':') of a line holding one colon
ColonAt(cs) == CHOOSE k \in 1..Len(cs) : cs[k] = ":"

ParseLine(cs) ==
    LET k == ColonAt(cs)
    IN  <<ParseInt(SubSeq(cs, 1, k - 1)), ParseInt(SubSeq(cs, k + 1, Len(cs)))>>

\* ------------------------------------------------------- Deadzone Store
\* load_deadzones: AVAILABLE_FRAMES and deadzones read back from the file.
RECURSIVE LoadedZones(_)
LoadedZones(lines) ==
    IF lines = <<>> THEN <<>>
    ELSE <<ParseLine(Head(lines))>> \o LoadedZones(Tail(lines))

ZoneSizes(zs) == [k \in 1..Len(zs) |-> zs[k][2] - zs[k][1] + 1]

\* f is the file: [exists |-> os.path.exists(DEADZONE_FILE), lines |-> its lines]
load_deadzones(total, f) ==
    LET zs == IF f.exists THEN LoadedZones(f.lines) ELSE <<>>
    IN  [AVAILABLE_FRAMES |-> total - SumSeq(ZoneSizes(zs)), deadzones |-> zs]

\* list.sort() of tuples: by start, then by end (insertion of one pair into
\* an already sorted list gives the same list as sorting the appended list).
PairLess(a, b) == a[1] < b[1] \/ (a[1] = b[1] /\ a[2] < b[2])

RECURSIVE InsertSorted(_, _)
InsertSorted(zs, z) ==
    IF zs = <<>> THEN <<z>>
    ELSE IF PairLess(z, Head(zs)) THEN <<z>> \o zs
    ELSE <<Head(zs)>> \o InsertSorted(Tail(zs), z)

RECURSIVE SortZones(_)
SortZones(zs) ==
    IF zs = <<>> THEN <<>>
    ELSE Only({InsertSorted(rest, Head(zs)) : rest \in {SortZones(Tail(zs))}})

\* a merge loop that joins overlapping intervals only, not adjacent ones
MergeStepOverlapOnly(merged, z) ==
    IF merged = <<>> \/ z[1] > merged[Len(merged)][2]
    THEN Append(merged, z)
    ELSE [merged EXCEPT ![Len(merged)] = <<@[1], Max(@[2], z[2])>>]

\* a merge loop that ends the merged interval where the later one ends
MergeStepLaterEnd(merged, z) ==
    IF merged = <<>> \/ z[1] > merged[Len(merged)][2] + 1
    THEN Append(merged, z)
    ELSE [merged EXCEPT ![Len(merged)] = <<@[1], z[2]>>]

\* the merge loop of add_deadzone
MergeStep(merged, z) ==
    IF merged = <<>> \/ z[1] > merged[Len(merged)][2] + 1
    THEN Append(merged, z)
    ELSE [merged EXCEPT ![Len(merged)] = <<@[1], Max(@[2], z[2])>>]

RECURSIVE MergeZones(_, _)
MergeZones(zs, merged) ==
    IF zs = <<>> THEN merged
    ELSE Only({MergeZones(Tail(zs), m) : m \in {MergeStep(merged, Head(zs))}})

WriteZones(merged) == [k \in 1..Len(merged) |-> FormatLine(merged[k][1], merged[k][2])]

\* add_deadzone(start, end): the file it writes.  "end = end or start"
\* replaces an end of 0 (falsy) by start.
add_deadzone(zs, start, end) ==
    LET e == IF end = 0 THEN start ELSE end
    IN  Only({WriteZones(merged) :
              merged \in {MergeZones(SortZones(Append(zs, <<start, e>>)), <<>>)}})

\* count_available_frames(start, end) of the dev script
OverlapSizes(zs, start, end) ==
    [k \in 1..Len(zs) |->
        IF zs[k][2] < start \/ zs[k][1] > end THEN 0
        ELSE Min(end, zs[k][2]) - Max(start, zs[k][1]) + 1]

count_available_frames(zs, start, end) ==
    (end - start + 1) - SumSeq(OverlapSizes(zs, start, end))

\* ------------------------------------------------ Python lists and floats
\* image[i] for a Python index i: negative indices count from the end,
\* anything outside -len..len-1 raises IndexError.
InIdx(img, i) == -Len(img) <= i /\ i < Len(img)
Pos(img, i) == IF i < 0 THEN i + Len(img) + 1 ELSE i + 1
At(img, i) == img[Pos(img, i)]
Put(img, i, v) == [img EXCEPT ![Pos(img, i)] = v]

\* step = (end_frame - start_frame) / (end_image - start_image) as a fraction
\* with a positive denominator
StepFrac(n, d) == IF d < 0 THEN <<-n, -d>> ELSE <<n, d>>

\* int(start_frame + ((i - start_image) * step)): no rounding to the nearest
SlotFrameTruncated(sf, k, step) == TruncDiv(sf * step[2] + k * step[1], step[2])

\* an even spacing that steps away from end_frame
SlotFrameBackwards(sf, k, step) ==
    TruncDiv(2 * sf * step[2] - 2 * k * step[1] + step[2], 2 * step[2])

\* int(start_frame + ((i - start_image) * step) + 1.5): one frame too far
SlotFramePastEnd(sf, k, step) ==
    TruncDiv(2 * sf * step[2] + 2 * k * step[1] + 3 * step[2], 2 * step[2])

\* int(start_frame + ((i - start_image) * step) + 0.5)
SlotFrame(sf, k, step) ==
    TruncDiv(2 * sf * step[2] + 2 * k * step[1] + step[2], 2 * step[2])

\* range(a, b) as the set of its values, for a <= b + 1
Range(a, b) == a..(b - 1)

\* ------------------------------------------------------------ run state
\* A run threads st = [image, iter, err, log] through the calls; a call
\* returns st together with its own jump and step.
Failed(st, e) == [st EXCEPT !.err = e]
Ret(st, jump, step) ==
    [image |-> st.image, iter |-> st.iter, err |-> st.err, log |-> st.log,
     jump |-> jump, step |-> step]
StOf(r) == [image |-> r.image, iter |-> r.iter, err |-> r.err, log |-> r.log]
Logged(st, e) == [st EXCEPT !.log = Append(@, e)]

\* ------------------------------------------- dist_images: even spacing
\* dev, lines 134-146: the walk over range(start_image, end_image, direction)
\* early_exit is TRUE for the code as it is; FALSE leaves out the break of
\* lines 141-143
RECURSIVE WalkDev(_, _, _, _, _, _, _, _, _, _)
WalkDev(early_exit, img, i, si, ei, dir, sf, step, jump, skip) ==
    IF i = ei THEN [image |-> img, jump |-> jump, err |-> "none"]
    ELSE IF ~InIdx(img, i)
    THEN [image |-> img, jump |-> jump, err |-> "IndexError"]
    ELSE
        LET frame == SlotFrame(sf, i - si, step)
            jump1 == IF jump = 0 THEN frame - At(img, i) ELSE jump
        IN  IF At(img, i) = frame
            THEN IF early_exit /\ skip + 1 > 1
                 THEN [image |-> img, jump |-> jump1, err |-> "none"]
                 ELSE Only({WalkDev(early_exit, img, n, si, ei, dir, sf, step, j, k) :
                            n \in {i + dir}, j \in {jump1}, k \in {skip + 1}})
            ELSE Only({WalkDev(early_exit, im, n, si, ei, dir, sf, step, j, 0) :
                       im \in {Put(img, i, frame)}, n \in {i + dir}, j \in {jump1}})

\* a single-slot branch that re-centres whatever the slot holds
InteriorOrEndpoint(N, frame) == TRUE

\* "if 0 < image[start_image] < TOTAL_FRAMES - 1": the one slot is re-centred
Interior(N, frame) == 0 < frame /\ frame < N - 1

\* dev, lines 120-148
SpacingDev(N, early_exit, img, sf, ef, si, ei) ==
    IF si = ei
    THEN IF ~InIdx(img, si)
         THEN [image |-> img, jump |-> 0, step |-> <<0, 1>>, err |-> "IndexError"]
         ELSE LET frame == At(img, si)
              IN  IF Interior(N, frame)
                  THEN [image |-> Put(img, si, FloorDiv(sf + ef, 2)),
                        jump |-> FloorDiv(sf + ef, 2) - frame,
                        step |-> <<0, 1>>, err |-> "none"]
                  ELSE [image |-> img, jump |-> 0, step |-> <<0, 1>>, err |-> "none"]
    ELSE LET dir == IF ei > si THEN 1 ELSE -1
             step == StepFrac(ef - sf, ei - si)
         IN  Only({[image |-> w.image, jump |-> w.jump, step |-> step, err |-> w.err] :
                   w \in {WalkDev(early_exit, img, si, si, ei, dir, sf, step, 0, 0)}})

\* --------------------------------------- dist_images: deadzone selection
ZoneLen(z) == z[2] - z[1] + 1
ZoneMid(z) == FloorDiv(z[1] + z[2], 2)

\* the sort key (x[1] - x[0] + 1, -abs((x[0] + x[1]) // 2 - center))
ZoneKey(z, center) == <<ZoneLen(z), -Abs(ZoneMid(z) - center)>>
KeyLess(a, b) == a[1] < b[1] \/ (a[1] = b[1] /\ a[2] < b[2])

\* the deadzones with min_frame <= dead_end and dead_start <= max_frame,
\* in the order of the list
RECURSIVE Intersecting(_, _, _)
Intersecting(zs, minf, maxf) ==
    IF zs = <<>> THEN <<>>
    ELSE IF minf <= Head(zs)[2] /\ Head(zs)[1] <= maxf
         THEN <<Head(zs)>> \o Intersecting(Tail(zs), minf, maxf)
         ELSE Intersecting(Tail(zs), minf, maxf)

\* sorted(..., key=...): ascending and stable (an element goes behind every
\* element whose key is not greater)
RECURSIVE InsertByKey(_, _, _)
InsertByKey(sorted, z, center) ==
    IF sorted = <<>> THEN <<z>>
    ELSE IF KeyLess(ZoneKey(z, center), ZoneKey(Head(sorted), center))
         THEN <<z>> \o sorted
         ELSE <<Head(sorted)>> \o InsertByKey(Tail(sorted), z, center)

RECURSIVE SortByKey(_, _, _)
SortByKey(zs, acc, center) ==
    IF zs = <<>> THEN acc
    ELSE Only({SortByKey(Tail(zs), a, center) : a \in {InsertByKey(acc, Head(zs), center)}})

\* dev, lines 153-156
sorted_deadzones(zs, minf, maxf, center) ==
    SortByKey(Intersecting(zs, minf, maxf), <<>>, center)

\* claude, lines 126-130: max(..., key=...) keeps the first of the largest
RECURSIVE MaxByKey(_, _, _)
MaxByKey(zs, best, center) ==
    IF zs = <<>> THEN best
    ELSE IF KeyLess(ZoneKey(best, center), ZoneKey(Head(zs), center))
         THEN MaxByKey(Tail(zs), Head(zs), center)
         ELSE MaxByKey(Tail(zs), best, center)

\* the classification loop over range(min_image, max_image + 1) for one
\* deadzone; lei and rsi are left_end_image and right_start_image, which
\* keep the value of an earlier pass when this pass does not assign them
Unset == [set |-> FALSE, val |-> 0]
SetTo(v) == [set |-> TRUE, val |-> v]
MaxOf(S) == CHOOSE x \in S : \A y \in S : y <= x

\* a classification that takes the slots on the deadzone for left ones
ClassifyDeadAsLeft(img, z, mini, maxi, lei, rsi) ==
    LET slots == mini..maxi
        lefts == {i \in slots : At(img, i) <= z[2]}
        rights == {i \in slots : At(img, i) > z[2]}
    IN  [images_left |-> Cardinality(lefts),
         dead_images |-> 0,
         images_right |-> Cardinality(rights),
         lei |-> IF lefts = {} THEN lei ELSE SetTo(MaxOf(lefts)),
         rsi |-> rsi]

Classify(img, z, mini, maxi, lei, rsi) ==
    LET slots == mini..maxi
        lefts == {i \in slots : At(img, i) < z[1]}
        deads == {i \in slots : z[1] <= At(img, i) /\ At(img, i) <= z[2]}
        rights == {i \in slots : At(img, i) > z[2]}
    IN  [images_left |-> Cardinality(lefts),
         dead_images |-> Cardinality(deads),
         images_right |-> Cardinality(rights),
         lei |-> IF lefts = {} THEN lei ELSE SetTo(MaxOf(lefts)),
         rsi |-> IF deads = {} THEN rsi ELSE SetTo(MaxOf(deads) + 1)]

AllInIdx(img, mini, maxi) == \A i \in mini..maxi : InIdx(img, i)

\* dev, lines 158-182: the first deadzone of the sorted list that holds a slot
RECURSIVE ScanDev(_, _, _, _, _, _)
ScanDev(img, zs, mini, maxi, lei, rsi) ==
    IF zs = <<>> THEN [found |-> FALSE, err |-> "none"]
    ELSE IF ~AllInIdx(img, mini, maxi) THEN [found |-> FALSE, err |-> "IndexError"]
    ELSE Only({IF c.dead_images > 0
               THEN [found |-> TRUE, err |-> "none", zone |-> Head(zs), c |-> c]
               ELSE ScanDev(img, Tail(zs), mini, maxi, c.lei, c.rsi) :
               c \in {Classify(img, Head(zs), mini, maxi, lei, rsi)}})

\* ------------------------------------------- dist_images: the move split
\* fractions <<num, den>> with den > 0
FracLess(a, b) == a[1] * b[2] < b[1] * a[2]
\* (a - b) ** 2 is kept as its root |a - b|: squares of non-negative numbers
\* compare as the numbers do
SqDiff(a, b) == <<Abs(a[1] * b[2] - b[1] * a[2]), a[2] * b[2]>>
TruncFrac(n, d) == IF d > 0 THEN TruncDiv(n, d) ELSE TruncDiv(-n, -d)

\* dev, ALGORITHM 2, lines 203-205
StepDiffDev(c, sl, sr, ml) ==
    LET mr == c.dead_images - ml
        ls == IF c.images_left + ml > 1 THEN <<sl, c.images_left + ml - 1>>
              ELSE <<3 * sl, 2>>
        rs == IF c.images_right + mr > 1 THEN <<sr, c.images_right + mr - 1>>
              ELSE <<3 * sr, 2>>
    IN  SqDiff(ls, rs)

\* claude, lines 167-169
DensityDiff(c, sl, sr, ml) ==
    LET mr == c.dead_images - ml
    IN  SqDiff(<<c.images_left + ml, sl>>, <<c.images_right + mr, sr>>)

\* "if diff < best_diff" over range(dead_images + 1): the first minimum of
\* diffs, a function on 0..dead_images
BestMoveLeft(diffs) ==
    CHOOSE ml \in DOMAIN diffs :
        /\ \A o \in DOMAIN diffs : ~FracLess(diffs[o], diffs[ml])
        /\ \A o \in DOMAIN diffs : o < ml => FracLess(diffs[ml], diffs[o])

\* dev, lines 189-220
MoveSplitDev(alg, c, sl, sr) ==
    LET total_images == c.images_left + c.images_right + c.dead_images
        total_spaces == sl + sr
    IN  IF total_images - 1 = 0 THEN [err |-> "ZeroDivisionError"]
        ELSE IF alg = 1
        THEN IF total_spaces = 0 THEN [err |-> "ZeroDivisionError"]
             ELSE LET x == TruncFrac(2 * sl * (total_images - 1)
                                       - 2 * c.images_left * total_spaces + total_spaces,
                                     2 * total_spaces)
                      ml == Min(c.dead_images, Max(0, x))
                  IN  [err |-> "none", move_left |-> ml, move_right |-> c.dead_images - ml]
        ELSE IF sl > 0 /\ sr > 0
        THEN Only({[err |-> "none", move_left |-> ml, move_right |-> c.dead_images - ml] :
                   ml \in {BestMoveLeft(diffs) :
                           diffs \in {[m \in 0..c.dead_images |-> StepDiffDev(c, sl, sr, m)]}}})
        ELSE IF sl > 0
        THEN [err |-> "none", move_left |-> c.dead_images, move_right |-> 0]
        ELSE IF sr > 0
        THEN [err |-> "none", move_left |-> 0, move_right |-> c.dead_images]
        ELSE [err |-> "exit"]

\* claude, lines 159-181
MoveSplitClaude(c, sl, sr) ==
    IF sl > 0 /\ sr > 0
    THEN Only({[err |-> "none", move_left |-> ml, move_right |-> c.dead_images - ml] :
               ml \in {BestMoveLeft(diffs) :
                       diffs \in {[m \in 0..c.dead_images |-> DensityDiff(c, sl, sr, m)]}}})
    ELSE IF sl > 0
    THEN [err |-> "none", move_left |-> c.dead_images, move_right |-> 0]
    ELSE IF sr > 0
    THEN [err |-> "none", move_left |-> 0, move_right |-> c.dead_images]
    ELSE [err |-> "exit"]

\* ------------------------------------------------- dist_images (dev)
\* g = [N |-> TOTAL_FRAMES, M |-> TOTAL_IMAGES, alg |-> ALGORITHM, zs |-> deadzones,
\*      early_exit |-> TRUE]
\* c = [kind, depth, pmin, pmax]: which call of its caller this is, and the
\* caller's frame span (log only)
CallEntry(c, sf, ef, si, ei, reset, ignore_deadzones) ==
    [op |-> "call", kind |-> c.kind, depth |-> c.depth, pmin |-> c.pmin, pmax |-> c.pmax,
     sf |-> sf, ef |-> ef, si |-> si, ei |-> ei, reset |-> reset,
     ignore_deadzones |-> ignore_deadzones]
SingleEntry(c, si, before, after, sf, ef) ==
    [op |-> "single", depth |-> c.depth, slot |-> si, before |-> before, after |-> after,
     sf |-> sf, ef |-> ef]
SpacesEntry(c, z, cands, minf, maxf, cl, sl, sr) ==
    [op |-> "spaces", depth |-> c.depth, zone |-> z, cands |-> cands,
     minf |-> minf, maxf |-> maxf, images_left |-> cl.images_left,
     images_right |-> cl.images_right, dead_images |-> cl.dead_images,
     spaces_left |-> sl, spaces_right |-> sr]
SplitEntry(c, ml, mr) ==
    [op |-> "split", depth |-> c.depth, move_left |-> ml, move_right |-> mr]
Sub(c, kind, minf, maxf) ==
    [kind |-> kind, depth |-> c.depth + 1, pmin |-> minf, pmax |-> maxf]

\* lines 235-244 and 249-251: the shifted start of the right range and of
\* the corrective left range
RightErm(ds, de, jump_erm, sub_step) ==
    Max(de + 1, TruncDiv((ds + jump_erm) * sub_step[2] + sub_step[1], 2 * sub_step[2]))
LeftErm(ds, de, jump_erm, sub_step) ==
    Min(ds - 1, TruncDiv((de + 2 + jump_erm) * sub_step[2] - sub_step[1], 2 * sub_step[2]))

RECURSIVE DistDev(_, _, _, _, _, _, _)
\* lines 246-257: R is what the right sub-problem returned
AfterRightDev(g, R, c, z, cl, ml, minf, maxf, mini, jump, step) ==
    IF R.err # "none" THEN Ret(StOf(R), jump, step)
    ELSE IF ml = 0 /\ cl.images_left > 0
    THEN Only({Ret(StOf(C), jump, step) :
               C \in {DistDev(g, StOf(R), Sub(c, "corr", minf, maxf),
                              LeftErm(z[1], z[2], At(R.image, cl.lei.val) + R.jump, R.step),
                              minf, cl.lei.val + ml, mini)}})
    ELSE Ret(StOf(R), jump, step)

\* lines 233-245: L is what the left sub-problem returned (st itself when
\* move_left = 0)
AfterLeftDev(g, L, c, z, cl, ml, mr, minf, maxf, mini, maxi, jump, step) ==
    LET ds == z[1]
        de == z[2]
        sub_jump == IF ml > 0 THEN L.jump ELSE 0
        goRight == mr > 0 \/ (sub_jump # 0 /\ cl.images_right > 0)
        firstRight == cl.rsi.val - mr
        ermOk == sub_jump = 0 \/ InIdx(L.image, firstRight)
        erm == IF sub_jump # 0
               THEN RightErm(ds, de, At(L.image, firstRight) + sub_jump, L.step)
               ELSE de + 1
    IN  IF L.err # "none" THEN Ret(StOf(L), jump, step)
        ELSE IF ~goRight THEN Ret(StOf(L), jump, step)
        ELSE IF ~ermOk THEN Ret(Failed(StOf(L), "IndexError"), jump, step)
        ELSE Only({AfterRightDev(g, R, c, z, cl, ml, minf, maxf, mini, jump, step) :
                   R \in {DistDev(g, StOf(L), Sub(c, "right", minf, maxf),
                                  erm, maxf, firstRight, maxi)}})

\* lines 226-262, after move_left and move_right are known
RecurseDev(g, st, c, z, cl, ml, mr, minf, maxf, mini, maxi, jump, step) ==
    Only({AfterLeftDev(g, L, c, z, cl, ml, mr, minf, maxf, mini, maxi, jump, step) :
          L \in {IF ml > 0
                 THEN IF ~cl.lei.set THEN Ret(Failed(st, "UnboundLocalError"), 0, <<0, 1>>)
                      ELSE DistDev(g, st, Sub(c, "left", minf, maxf),
                                   z[1] - 1, minf, cl.lei.val + ml, mini)
                 ELSE Ret(st, 0, <<0, 1>>)}})

\* lines 184-224: the split for the deadzone the scan stopped at
SplitDev(g, st, c, cands, scan, minf, maxf, mini, maxi, jump, step) ==
    IF scan.err # "none" THEN Ret(Failed(st, scan.err), jump, step)
    ELSE IF ~scan.found THEN Ret(st, jump, step)
    ELSE
        LET z == scan.zone
            sl == count_available_frames(g.zs, minf, z[1] - 1)
            sr == count_available_frames(g.zs, z[2] + 1, maxf)
            st1 == Logged(st, SpacesEntry(c, z, cands, minf, maxf, scan.c, sl, sr))
        IN  Only({IF mv.err # "none" THEN Ret(Failed(st1, mv.err), jump, step)
                  ELSE RecurseDev(g, Logged(st1, SplitEntry(c, mv.move_left, mv.move_right)),
                                  c, z, scan.c, mv.move_left, mv.move_right,
                                  minf, maxf, mini, maxi, jump, step) :
                  mv \in {MoveSplitDev(g.alg, scan.c, sl, sr)}})

\* lines 150-182: deadzone correction of one call, after the even spacing
CorrectDev(g, st, c, sf, ef, si, ei, jump, step) ==
    LET minf == Min(sf, ef)
        maxf == Max(sf, ef)
        mini == Min(si, ei)
        maxi == Max(si, ei)
        center == FloorDiv(sf + ef, 2)
    IN  Only({Only({SplitDev(g, st, c, cands, scan, minf, maxf, mini, maxi, jump, step) :
                    scan \in {ScanDev(st.image, cands, mini, maxi, Unset, Unset)}}) :
              cands \in {sorted_deadzones(g.zs, minf, maxf, center)}})

\* lines 115-148: iter, the reset of image and the even spacing
SpacedDev(g, st, c, sf, ef, si, ei, it, img0, sp) ==
    LET st0 == [image |-> sp.image, iter |-> it, err |-> sp.err,
                log |-> Append(st.log, CallEntry(c, sf, ef, si, ei, it = 1, FALSE))]
        st1 == IF si = ei /\ sp.err = "none"
               THEN Logged(st0, SingleEntry(c, si, At(img0, si), At(sp.image, si), sf, ef))
               ELSE st0
    IN  IF sp.err # "none" THEN Ret(st0, sp.jump, sp.step)
        ELSE Only({CorrectDev(g, s1, c, sf, ef, si, ei, sp.jump, sp.step) : s1 \in {st1}})

EnterDev(g, st, c, sf, ef, si, ei) ==
    IF c.depth > MaxDepth THEN Ret(Failed(st, "RecursionError"), 0, <<0, 1>>)
    ELSE
        LET it == IF sf = 0 /\ ef = g.N - 1 THEN 1 ELSE st.iter + 1
        IN  Only({Only({SpacedDev(g, st, c, sf, ef, si, ei, it, img0, sp) :
                        sp \in {SpacingDev(g.N, g.early_exit, img0, sf, ef, si, ei)}}) :
                  img0 \in {IF it = 1 THEN [k \in 1..g.M |-> g.N - 1] ELSE st.image}})

\* lines 109-262: one call of dist_images, its arguments computed by the caller
DistDev(g, st, c, sf, ef, si, ei) ==
    Only({EnterDev(g, s, cc, a, b, i, j) :
          s \in {st}, cc \in {c}, a \in {sf}, b \in {ef}, i \in {si}, j \in {ei}})

\* dist_images() with its defaults: end_frame = TOTAL_FRAMES - 1,
\* end_image = TOTAL_IMAGES - 1
Top == [kind |-> "top", depth |-> 0, pmin |-> 0, pmax |-> 0]

RunDev(g, img, it) ==
    DistDev(g, [image |-> img, iter |-> it, err |-> "none", log |-> <<>>],
            Top, 0, g.N - 1, 0, g.M - 1)

\* ------------------------------------------------ dist_images (claude)
\* "i in image": some slot holds the value i
Holds(img, v) == \E k \in 1..Len(img) : img[k] = v

\* lines 110-116: the walk over range(start_image, end_image + direction, direction)
\* early_exit is TRUE for the code as it is; FALSE leaves out the break of
\* lines 113-114
RECURSIVE WalkClaude(_, _, _, _, _, _, _, _)
WalkClaude(early_exit, img, i, si, stop, dir, sf, step) ==
    IF i = stop THEN [image |-> img, err |-> "none"]
    ELSE IF ~InIdx(img, i) THEN [image |-> img, err |-> "IndexError"]
    ELSE
        LET frame == SlotFrame(sf, i - si, step)
        IN  IF early_exit /\ Holds(img, i) /\ frame = At(img, i)
            THEN [image |-> img, err |-> "none"]
            ELSE Only({WalkClaude(early_exit, im, n, si, stop, dir, sf, step) :
                       im \in {Put(img, i, frame)}, n \in {i + dir}})

\* lines 97-117; with one slot direction is 0 and range(..., 0) raises ValueError
SpacingClaude(N, early_exit, img, sf, ef, si, ei) ==
    IF si = ei
    THEN IF ~InIdx(img, si) THEN [image |-> img, err |-> "IndexError"]
         ELSE LET frame == At(img, si)
              IN  [image |-> IF Interior(N, frame)
                             THEN Put(img, si, FloorDiv(sf + ef, 2)) ELSE img,
                   err |-> "ValueError"]
    ELSE LET dir == IF ei > si THEN 1 ELSE -1
         IN  WalkClaude(early_exit, img, si, si, ei + dir, dir, sf,
                        StepFrac(ef - sf, ei - si))

\* lines 126-130
best_deadzone(zs, minf, maxf, center) ==
    LET cands == Intersecting(zs, minf, maxf)
    IN  IF cands = <<>> THEN <<>> ELSE <<MaxByKey(Tail(cands), Head(cands), center)>>

RECURSIVE DistClaude(_, _, _, _, _, _, _)
\* the right sub-problem without the corrective left call behind it
AfterRightUncorrected(g, R, c, z, cl, ml, minf, maxf, mini) == R

\* lines 198-207: R is the state the right sub-problem left
AfterRightClaude(g, R, c, z, cl, ml, minf, maxf, mini) ==
    IF R.err # "none" THEN R
    ELSE IF ml = 0 /\ cl.images_left > 0
    THEN Only({StOf(C) :
               C \in {DistClaude(g, R, Sub(c, "corr", minf, maxf),
                                 Min(z[1] - 1, z[2] + 1), minf, cl.lei.val + ml, mini)}})
    ELSE R

\* lines 191-197: L is the state the left sub-problem left (st itself when
\* move_left = 0)
AfterLeftClaude(g, L, c, z, cl, ml, mr, minf, maxf, mini, maxi) ==
    IF L.err # "none" THEN L
    ELSE IF cl.images_right = 0 THEN L
    ELSE Only({AfterRightClaude(g, StOf(R), c, z, cl, ml, minf, maxf, mini) :
               R \in {DistClaude(g, L, Sub(c, "right", minf, maxf),
                                 z[2] + 1, maxf, cl.rsi.val - mr, maxi)}})

\* lines 185-207
RecurseClaude(g, st, c, z, cl, ml, mr, minf, maxf, mini, maxi) ==
    Only({AfterLeftClaude(g, L, c, z, cl, ml, mr, minf, maxf, mini, maxi) :
          L \in {IF ml > 0
                 THEN IF ~cl.lei.set THEN Failed(st, "UnboundLocalError")
                      ELSE StOf(DistClaude(g, st, Sub(c, "left", minf, maxf),
                                           z[1] - 1, minf, cl.lei.val + ml, mini))
                 ELSE st}})

\* lines 139-183: the split for best_deadzone z, classified as cl
SplitClaude(g, st, c, z, cl, minf, maxf, mini, maxi) ==
    LET sl == z[1] - minf
        sr == maxf - z[2]
        st1 == Logged(st, SpacesEntry(c, z, Intersecting(g.zs, minf, maxf),
                                      minf, maxf, cl, sl, sr))
    IN  IF cl.dead_images = 0 THEN st
        ELSE Only({IF mv.err # "none" THEN Failed(st1, mv.err)
                   ELSE RecurseClaude(g, Logged(st1, SplitEntry(c, mv.move_left, mv.move_right)),
                                      c, z, cl, mv.move_left, mv.move_right,
                                      minf, maxf, mini, maxi) :
                   mv \in {MoveSplitClaude(cl, sl, sr)}})

\* lines 119-138
CorrectClaude(g, st, c, sf, ef, si, ei) ==
    LET minf == Min(sf, ef)
        maxf == Max(sf, ef)
        mini == Min(si, ei)
        maxi == Max(si, ei)
        center == FloorDiv(sf + ef, 2)
    IN  Only({IF best = <<>> THEN st
              ELSE IF ~AllInIdx(st.image, mini, maxi) THEN Failed(st, "IndexError")
              ELSE Only({SplitClaude(g, st, c, best[1], cl, minf, maxf, mini, maxi) :
                         cl \in {Classify(st.image, best[1], mini, maxi, Unset, Unset)}}) :
              best \in {best_deadzone(g.zs, minf, maxf, center)}})

\* lines 90-117: the defaults, zone_id and the even spacing; "end_frame or ..."
\* and "end_image or ..." replace a 0 like a missing argument
EnterClaude(g, st, c, start_frame, end_frame, start_image, end_image) ==
    IF c.depth > MaxDepth THEN Ret(Failed(st, "RecursionError"), 0, <<0, 1>>)
    ELSE
        LET ignore_deadzones == start_frame = -1
            sf == Max(0, start_frame)
            ef == IF end_frame = 0 THEN g.N - 1 ELSE end_frame
            si == start_image
            ei == IF end_image = 0 THEN g.M - 1 ELSE end_image
            zone_id == IF sf = 0 /\ ef = g.N - 1 THEN 1 ELSE st.iter + 1
        IN  Only({
                LET st0 == [image |-> sp.image, iter |-> zone_id, err |-> sp.err,
                            log |-> Append(st.log, CallEntry(c, sf, ef, si, ei, FALSE,
                                                             ignore_deadzones))]
                    st1 == IF si = ei /\ InIdx(st.image, si)
                           THEN Logged(st0, SingleEntry(c, si, At(st.image, si),
                                                        At(sp.image, si), sf, ef))
                           ELSE st0
                IN  IF sp.err # "none" THEN Ret(st1, 0, <<0, 1>>)
                    ELSE IF ignore_deadzones THEN Ret(st1, 0, <<0, 1>>)
                    ELSE Only({Ret(CorrectClaude(g, s1, c, sf, ef, si, ei), 0, <<0, 1>>) :
                               s1 \in {st1}}) :
                sp \in {SpacingClaude(g.N, g.early_exit, st.image, sf, ef, si, ei)}})

\* lines 88-209: one call of dist_images, its arguments computed by the caller
DistClaude(g, st, c, start_frame, end_frame, start_image, end_image) ==
    Only({EnterClaude(g, s, cc, a, b, i, j) :
          s \in {st}, cc \in {c}, a \in {start_frame}, b \in {end_frame},
          i \in {start_image}, j \in {end_image}})

\* dist_images() and dist_images(-1): the missing arguments are None
RunClaude(g, img, it, start_frame) ==
    DistClaude(g, [image |-> img, iter |-> it, err |-> "none", log |-> <<>>],
               Top, start_frame, 0, 0, 0)

\* ------------------------------------------------------- Grid Optimizer
\* RATIO_DIFF = ((x * FRAME_WIDTH) / (y * FRAME_HEIGHT) - WIDTH / HEIGHT) ** 2
\* as <<num, den, side>>: num / den is its root |GRID_RATIO - TARGET_RATIO|
\* (squares of non-negative numbers compare as the numbers do), side is the
\* sign of GRID_RATIO - TARGET_RATIO.
\* q = [W |-> WIDTH, H |-> HEIGHT, FW |-> FRAME_WIDTH, FH |-> FRAME_HEIGHT]
Sign(a) == IF a > 0 THEN 1 ELSE IF a < 0 THEN -1 ELSE 0

RatioDiff(q, x, y) ==
    <<Abs(x * q.FW * q.H - q.W * y * q.FH), y * q.FH * q.H,
      Sign(x * q.FW * q.H - q.W * y * q.FH)>>

\* float('inf'): nothing is greater, every fraction is smaller
Inf == <<1, 0, 0>>

\* a < b on the floats.  Two grids whose ratios lie at the same distance on
\* opposite sides of the target have equal RATIO_DIFF as fractions, while the
\* rounding of the two divisions decides which float is smaller: tie is that
\* outcome, 1 when the wider grid's float is the smaller, -1 when the
\* narrower one's is, 0 when the floats are equal.
FloatLess(a, b, tie) ==
    IF a[1] * b[2] = b[1] * a[2] /\ a[3] # b[3] /\ a[3] # 0 /\ b[3] # 0
    THEN a[3] = tie
    ELSE FracLess(a, b)

Rounding == {-1, 0, 1}

\* start_x = int((y * TARGET_RATIO * FRAME_HEIGHT) / FRAME_WIDTH)
StartX(q, y) == FloorDiv(y * q.W * q.FH, q.H * q.FW)

\* a search that begins with a grid in hand
NoGridFound == [found |-> TRUE, diff |-> Inf, cols |-> 0, rows |-> 0, stop |-> FALSE]

\* b, the best grid so far; stop is set once the y loop has hit its break
NoGrid == [found |-> FALSE, diff |-> Inf, cols |-> 0, rows |-> 0, stop |-> FALSE]
Better(d, x, y) == [found |-> TRUE, diff |-> d, cols |-> x, rows |-> y, stop |-> FALSE]

\* claude, lines 55-66: the x loop of one row count y
RECURSIVE ScanColsClaude(_, _, _, _, _, _, _)
ScanColsClaude(q, x, end_x, y, b, last_x_diff, tie) ==
    IF x > end_x THEN b
    ELSE Only({IF FloatLess(d, b.diff, tie)
               THEN ScanColsClaude(q, x + 1, end_x, y, Better(d, x, y), d, tie)
               ELSE IF FloatLess(last_x_diff, d, tie) THEN b
               ELSE ScanColsClaude(q, x + 1, end_x, y, b, d, tie) :
               d \in {RatioDiff(q, x, y)}})

\* claude, lines 50-66: one pass of the y loop
RowClaude(q, avail, y, target_cols, b, tie) ==
    IF b.stop THEN b
    ELSE IF StartX(q, y) * y > avail THEN [b EXCEPT !.stop = TRUE]
    ELSE ScanColsClaude(q, StartX(q, y),
                        IF target_cols # 0 THEN target_cols ELSE FloorDiv(avail, y),
                        y, b, Inf, tie)

\* claude, line 49: for y in range(start_y, end_y + 1), the passes y..end_y in
\* their order (first the lower half of them, then the upper half)
RECURSIVE ScanRowsClaude(_, _, _, _, _, _, _)
ScanRowsClaude(q, avail, y, end_y, target_cols, b, tie) ==
    IF y > end_y THEN b
    ELSE IF y = end_y THEN RowClaude(q, avail, y, target_cols, b, tie)
    ELSE Only({ScanRowsClaude(q, avail, FloorDiv(y + end_y, 2) + 1, end_y, target_cols, nb, tie) :
               nb \in {ScanRowsClaude(q, avail, y, FloorDiv(y + end_y, 2), target_cols, b, tie)}})

\* claude, lines 43-67; a target of 0 counts as not given
FindGridClaude(q, avail, target_rows, target_cols, tie) ==
    ScanRowsClaude(q, avail, IF target_rows # 0 THEN target_rows ELSE 1,
                   IF target_rows # 0 THEN target_rows ELSE avail, target_cols, NoGrid, tie)

\* dev, lines 58-71: the x loop of one row count y
RECURSIVE ScanColsDev(_, _, _, _, _, _, _, _)
ScanColsDev(q, avail, x, end_x, y, b, last_x_diff, tie) ==
    IF x > end_x THEN b
    ELSE IF x * y > avail THEN b
    ELSE Only({IF FloatLess(d, b.diff, tie)
               THEN ScanColsDev(q, avail, x + 1, end_x, y, Better(d, x, y), d, tie)
               ELSE IF FloatLess(last_x_diff, d, tie) THEN b
               ELSE ScanColsDev(q, avail, x + 1, end_x, y, b, d, tie) :
               d \in {RatioDiff(q, x, y)}})

\* dev, lines 55-71: one pass of the y loop
RowDev(q, avail, y, target_cols, b, tie) ==
    ScanColsDev(q, avail, StartX(q, y),
                IF target_cols # 0 THEN target_cols ELSE FloorDiv(avail, y),
                y, b, Inf, tie)

\* dev, line 54: for y in range(start_y, end_y + 1), the passes y..end_y in
\* their order (first the lower half of them, then the upper half)
RECURSIVE ScanRowsDev(_, _, _, _, _, _, _)
ScanRowsDev(q, avail, y, end_y, target_cols, b, tie) ==
    IF y > end_y THEN b
    ELSE IF y = end_y THEN RowDev(q, avail, y, target_cols, b, tie)
    ELSE Only({ScanRowsDev(q, avail, FloorDiv(y + end_y, 2) + 1, end_y, target_cols, nb, tie) :
               nb \in {ScanRowsDev(q, avail, y, FloorDiv(y + end_y, 2), target_cols, b, tie)}})

\* dev, lines 47-73: "available_frames or AVAILABLE_FRAMES"
FindGridDev(q, available_frames, AVAILABLE, target_rows, target_cols, tie) ==
    LET avail == IF available_frames = 0 THEN AVAILABLE ELSE available_frames
    IN  ScanRowsDev(q, avail, IF target_rows # 0 THEN target_rows ELSE 1,
                    IF target_rows # 0 THEN target_rows ELSE avail, target_cols, NoGrid, tie)

\* ------------------------------------------------------------ the process
\* TOTAL_IMAGES of the dev script before set_grid or the harness assigns it:
\* reading it raises NameError
Unbound == -1

\* "WIDTH, HEIGHT = 16, 9" when no aspect ratio is given
DefaultAspect == <<16, 9>>

\* for num_images in range(21, 1, -1)
AlgoTestFirst == 21

Geometry(w, h, fw, fh) == [W |-> w, H |-> h, FW |-> fw, FH |-> fh]
Aspect(ar) == IF ar = <<>> THEN DefaultAspect ELSE ar

NoGridArg == [form |-> "none", cols |-> 0, rows |-> 0]
GridBoth(c, r) == [form |-> "CxR", cols |-> c, rows |-> r]
GridCols(c) == [form |-> "Cx", cols |-> c, rows |-> 0]
GridRows(r) == [form |-> "xR", cols |-> 0, rows |-> r]

Fresh(n, v) == [k \in 1..n |-> v]
Op(name, start, end) == [op |-> name, start |-> start, end |-> end]
Dist(n, m, alg, zs) == [N |-> n, M |-> m, alg |-> alg, zs |-> zs, early_exit |-> TRUE]

\* claude, lines 367-379: the grid of the command line
StartGridClaude(q, avail, grid, ar, tie) ==
    IF grid.form = "CxR" THEN [err |-> "none", cols |-> grid.cols, rows |-> grid.rows]
    ELSE LET f == IF grid.form = "Cx" THEN FindGridClaude(q, avail, 0, grid.cols, tie)
                  ELSE IF grid.form = "xR" THEN FindGridClaude(q, avail, grid.rows, 0, tie)
                  ELSE IF ar # <<>> THEN FindGridClaude(q, avail, 0, 0, tie)
                  ELSE FindGridClaude(q, avail, 2, 0, tie)
         IN  IF f.found THEN [err |-> "none", cols |-> f.cols, rows |-> f.rows]
             ELSE [err |-> "NameError", cols |-> 0, rows |-> 0]

\* dev, lines 417-434: set_grid; ok is its return value, m the TOTAL_IMAGES it leaves
set_grid(q, avail, total, new_grid, tie) ==
    LET f == IF new_grid.form = "Cx" THEN FindGridDev(q, 0, avail, 0, new_grid.cols, tie)
             ELSE IF new_grid.form = "xR" THEN FindGridDev(q, 0, avail, new_grid.rows, 0, tie)
             ELSE [found |-> TRUE, cols |-> new_grid.cols, rows |-> new_grid.rows]
    IN  IF ~f.found THEN [err |-> "UnboundLocalError", ok |-> FALSE]
        ELSE [err |-> "none", cols |-> f.cols, rows |-> f.rows, m |-> f.cols * f.rows,
              ok |-> ~(f.cols * f.rows < 2) /\ ~(f.cols * f.rows > total)]

\* dev, lines 496-502: the grid of the command line; without a GRID argument
\* TOTAL_IMAGES is not assigned
StartGridDev(q, avail, total, grid, ar, tie) ==
    IF grid.form # "none" THEN set_grid(q, avail, total, grid, tie)
    ELSE LET f == IF ar # <<>> THEN FindGridDev(q, 0, avail, 0, 0, tie)
                  ELSE FindGridDev(q, 0, avail, 2, 0, tie)
         IN  IF f.found THEN [err |-> "none", cols |-> f.cols, rows |-> f.rows, m |-> Unbound,
                              ok |-> TRUE]
             ELSE [err |-> "UnboundLocalError", ok |-> FALSE]

\* a top-level dist_images() of the dev script on the globals
TopDev(n, m, alg, zs, img, it) ==
    IF m = Unbound
    THEN Ret([image |-> img, iter |-> it, err |-> "NameError", log |-> <<>>], 0, <<0, 1>>)
    ELSE RunDev(Dist(n, m, alg, zs), img, it)

\* where the process stands after a call that ended with err
After(err, then) == IF err = "none" THEN then ELSE err
Waiting(m) == IF m = "interactive" THEN "menu" ELSE "done"

\* ------------------------------------------------------------- the inputs
Progs == {"claude", "dev"}
Algorithms(p) == IF p = "dev" THEN {1, 2} ELSE {0}

\* the grid arguments tried: Mx1 for every slot count up to MaxFrames, the
\* 5x1 of the scenarios, one column count alone, and none
GridArgs == {GridBoth(c, 1) : c \in 1..MaxFrames} \cup {GridBoth(5, 1), GridCols(2), NoGridArg}

\* the command lines tried: each script with -i or without, the dev script
\* also with --algo-test
CommandLines ==
    {[prog |-> p, mode |-> m, GRID |-> g, ALGORITHM |-> a] :
        p \in Progs, m \in {"normal", "interactive"}, g \in GridArgs, a \in {0, 1, 2}}
    \cup {[prog |-> "dev", mode |-> "algo_test", GRID |-> NoGridArg, ALGORITHM |-> 1]}
Launchable(c) == c.ALGORITHM \in Algorithms(c.prog)

FrameDims == {<<4, 3>>}

\* the frames of the long video of the scenarios, and its frame count
ScenarioFrames == {0, 40, 60, 99}
ScenarioTotal == MaxOf(ScenarioFrames) + 1

\* what the user types at "Enter start and end frames: ": any span of a short
\* video, a span between the ScenarioFrames of the long one
UserFrames(n) ==
    IF n <= MaxFrames
    THEN {se \in (0..(n - 1)) \X (0..(n - 1)) : se[1] <= se[2]}
    ELSE {se \in ScenarioFrames \X ScenarioFrames : se[1] <= se[2]}

\* the spans previewed: those of at most MaxFrames frames that begin or end
\* the video
PreviewSpans(n) ==
    {se \in UserFrames(n) : (se[1] = 0 \/ se[2] = n - 1) /\ se[2] - se[1] < MaxFrames}

\* the grids typed at "Enter new grid"
NewGrids == {GridBoth(1, 1), GridBoth(3, 1), GridCols(2)}

\* the rounding outcomes that matter for a grid argument
Roundings(g) == IF g.form = "CxR" THEN {0} ELSE Rounding

\* ------------------------------------------------------------- the actions
\* no process runs: the memory of a process that ended is gone, the video and
\* its deadzone file are what stays
NoCommand == [prog |-> "none", mode |-> "none", GRID |-> NoGridArg, ALGORITHM |-> 0]

InitOn(frames) ==
    /\ prog = NoCommand.prog /\ mode = NoCommand.mode
    /\ GRID = NoCommand.GRID /\ ALGORITHM = NoCommand.ALGORITHM
    /\ TOTAL_FRAMES \in frames
    /\ \E d \in FrameDims : FRAME_WIDTH = d[1] /\ FRAME_HEIGHT = d[2]
    /\ ASPECT_RATIO = <<>>
    /\ WIDTH = 0 /\ HEIGHT = 0
    /\ COLS = 0 /\ ROWS = 0
    /\ TOTAL_IMAGES = Unbound
    /\ AVAILABLE_FRAMES = 0
    /\ deadzones = <<>>
    /\ file = [exists |-> FALSE, lines |-> <<>>]
    /\ image = <<>>
    /\ iter = 0
    /\ num_images = 0
    /\ status = "off"
    /\ log = <<>>
    /\ last = Op("none", 0, 0)

\* a short video whose deadzone file does not exist yet
Init == InitOn(MinFrames..MaxFrames)

\* the long video of the scenarios
InitScenario == InitOn({ScenarioTotal})

\* no dist_images() was run
NoRun == Ret([image |-> <<>>, iter |-> 0, err |-> "none", log |-> <<>>], 0, <<0, 1>>)

\* claude, lines 279-395: the script is run with command line c, up to the
\* first dist_images()
StartupClaude(c, tie) ==
    /\ status = "off" /\ c.prog = "claude"
    /\ prog' = c.prog /\ mode' = c.mode /\ GRID' = c.GRID /\ ALGORITHM' = c.ALGORITHM
    /\ \E ar \in {Aspect(ASPECT_RATIO)} :
       \E ld \in {load_deadzones(TOTAL_FRAMES, file)} :
       \E gr \in {StartGridClaude(Geometry(ar[1], ar[2], FRAME_WIDTH, FRAME_HEIGHT),
                                  ld.AVAILABLE_FRAMES, c.GRID, ASPECT_RATIO, tie)} :
       \E m \in {gr.cols * gr.rows} :
       \E valid \in {gr.err = "none" /\ ~(m < 2) /\ ~(m > TOTAL_FRAMES)} :
       \E r \in {IF valid
                 THEN RunClaude(Dist(TOTAL_FRAMES, m, c.ALGORITHM, ld.deadzones),
                                Fresh(m, -1), 0, 0)
                 ELSE NoRun} :
           /\ WIDTH' = ar[1] /\ HEIGHT' = ar[2]
           /\ AVAILABLE_FRAMES' = ld.AVAILABLE_FRAMES
           /\ deadzones' = ld.deadzones
           /\ COLS' = gr.cols /\ ROWS' = gr.rows
           /\ TOTAL_IMAGES' = IF gr.err = "none" THEN m ELSE Unbound
           /\ image' = r.image
           /\ iter' = r.iter
           /\ log' = r.log
           /\ status' = IF gr.err # "none" THEN gr.err
                        ELSE IF ~valid THEN "exit"
                        ELSE After(r.err, Waiting(c.mode))
    /\ last' = Op("startup", 0, 0)
    /\ UNCHANGED <<ASPECT_RATIO, TOTAL_FRAMES, FRAME_WIDTH, FRAME_HEIGHT, file, num_images>>

\* dev, lines 329-415 and 459, 496-505: the script is run with command line
\* c; set_grid's verdict is not looked at
StartupDev(c, tie) ==
    /\ status = "off" /\ c.prog = "dev"
    /\ prog' = c.prog /\ mode' = c.mode /\ GRID' = c.GRID /\ ALGORITHM' = c.ALGORITHM
    /\ \E ar \in {Aspect(ASPECT_RATIO)} :
       \E ld \in {load_deadzones(TOTAL_FRAMES, file)} :
       \E harness \in {c.mode = "algo_test"} :
       \E gr \in {IF harness THEN [err |-> "none", cols |-> 0, rows |-> 0, m |-> Unbound]
                  ELSE StartGridDev(Geometry(ar[1], ar[2], FRAME_WIDTH, FRAME_HEIGHT),
                                    ld.AVAILABLE_FRAMES, TOTAL_FRAMES, c.GRID,
                                    ASPECT_RATIO, tie)} :
       \E ok \in {gr.err = "none"} :
       \E r \in {IF ok /\ ~harness
                 THEN TopDev(TOTAL_FRAMES, gr.m, c.ALGORITHM, ld.deadzones, <<>>, 0)
                 ELSE NoRun} :
           /\ WIDTH' = ar[1] /\ HEIGHT' = ar[2]
           /\ AVAILABLE_FRAMES' = ld.AVAILABLE_FRAMES
           /\ deadzones' = ld.deadzones
           /\ COLS' = IF ok THEN gr.cols ELSE 0
           /\ ROWS' = IF ok THEN gr.rows ELSE 0
           /\ TOTAL_IMAGES' = IF ok THEN gr.m ELSE Unbound
           /\ image' = r.image
           /\ iter' = r.iter
           /\ log' = r.log
           /\ num_images' = IF harness THEN AlgoTestFirst ELSE 0
           /\ status' = IF harness THEN "algo_test"
                        ELSE IF ~ok THEN gr.err
                        ELSE After(r.err, Waiting(c.mode))
    /\ last' = Op("startup", 0, 0)
    /\ UNCHANGED <<ASPECT_RATIO, TOTAL_FRAMES, FRAME_WIDTH, FRAME_HEIGHT, file>>

\* dev, lines 462-471: one pass of "for num_images in range(21, 1, -1)", both
\* algorithms in turn; last keeps algo_results
AlgoTestStep ==
    /\ status = "algo_test"
    /\ \E r1 \in {TopDev(TOTAL_FRAMES, num_images, 1, deadzones, image, iter)} :
       \E r2 \in {IF r1.err = "none"
                  THEN TopDev(TOTAL_FRAMES, num_images, 2, deadzones, r1.image, r1.iter)
                  ELSE r1} :
           /\ TOTAL_IMAGES' = num_images
           /\ COLS' = num_images /\ ROWS' = 1
           /\ ALGORITHM' = IF r1.err = "none" THEN 2 ELSE 1
           /\ image' = r2.image
           /\ iter' = r2.iter
           /\ log' = r2.log
           /\ status' = After(r2.err, IF num_images - 1 > 1 THEN "algo_test" ELSE "done")
           /\ last' = [op |-> "algo_test", start |-> 0, end |-> 0,
                       results |-> IF r1.err = "none" THEN <<r1.image, r2.image>> ELSE <<>>]
    /\ num_images' = num_images - 1
    /\ UNCHANGED <<prog, mode, GRID, ASPECT_RATIO, TOTAL_FRAMES, FRAME_WIDTH, FRAME_HEIGHT,
                   WIDTH, HEIGHT, AVAILABLE_FRAMES, deadzones, file>>

\* menu choice 1 of claude, lines 401-405
AddDeadzoneClaude(start, end) ==
    /\ status = "menu" /\ prog = "claude"
    /\ \E f \in {[exists |-> TRUE, lines |-> add_deadzone(deadzones, start, end)]} :
       \E ld \in {load_deadzones(TOTAL_FRAMES, f)} :
       \E r \in {RunClaude(Dist(TOTAL_FRAMES, TOTAL_IMAGES, ALGORITHM, ld.deadzones),
                           Fresh(TOTAL_IMAGES, -1), iter, 0)} :
           /\ file' = f
           /\ AVAILABLE_FRAMES' = ld.AVAILABLE_FRAMES
           /\ deadzones' = ld.deadzones
           /\ image' = r.image
           /\ iter' = r.iter
           /\ log' = r.log
           /\ status' = After(r.err, "menu")
    /\ last' = Op("add", 0, 0)
    /\ UNCHANGED <<prog, mode, GRID, ASPECT_RATIO, ALGORITHM, TOTAL_FRAMES, FRAME_WIDTH,
                   FRAME_HEIGHT, WIDTH, HEIGHT, COLS, ROWS, TOTAL_IMAGES, num_images>>

\* menu choice 1 of dev, lines 512-516
AddDeadzoneDev(start, end) ==
    /\ status = "menu" /\ prog = "dev"
    /\ \E f \in {[exists |-> TRUE, lines |-> add_deadzone(deadzones, start, end)]} :
       \E ld \in {load_deadzones(TOTAL_FRAMES, f)} :
       \E r \in {TopDev(TOTAL_FRAMES, TOTAL_IMAGES, ALGORITHM, ld.deadzones, image, iter)} :
           /\ file' = f
           /\ AVAILABLE_FRAMES' = ld.AVAILABLE_FRAMES
           /\ deadzones' = ld.deadzones
           /\ image' = r.image
           /\ iter' = r.iter
           /\ log' = r.log
           /\ status' = After(r.err, "menu")
    /\ last' = Op("add", 0, 0)
    /\ UNCHANGED <<prog, mode, GRID, ASPECT_RATIO, ALGORITHM, TOTAL_FRAMES, FRAME_WIDTH,
                   FRAME_HEIGHT, WIDTH, HEIGHT, COLS, ROWS, TOTAL_IMAGES, num_images>>

\* menu choice 2 of claude, lines 406-410: dist_images(-1) on the image as it is
PreviewClaude(start, end) ==
    /\ status = "menu" /\ prog = "claude"
    /\ \E r \in {RunClaude(Dist(TOTAL_FRAMES, TOTAL_IMAGES, ALGORITHM, deadzones),
                           image, iter, -1)} :
           /\ image' = r.image
           /\ iter' = r.iter
           /\ log' = r.log
           /\ status' = After(r.err, "menu")
    /\ last' = Op("preview", 0, 0)
    /\ UNCHANGED <<prog, mode, GRID, ASPECT_RATIO, ALGORITHM, TOTAL_FRAMES, FRAME_WIDTH,
                   FRAME_HEIGHT, WIDTH, HEIGHT, COLS, ROWS, TOTAL_IMAGES, AVAILABLE_FRAMES,
                   deadzones, file, num_images>>

\* image = [int(start + (i * step) + 0.5) for i in range(cols * rows)]
PreviewImage(start, end, n) ==
    [k \in 1..n |-> SlotFrame(start, k - 1, StepFrac(end - start, n - 1))]

\* menu choice 2 of dev, lines 517-525: a grid and an image of its own for the
\* span, then dist_images()
PreviewDev(start, end, tie) ==
    /\ status = "menu" /\ prog = "dev"
    /\ \E f \in {FindGridDev(Geometry(WIDTH, HEIGHT, FRAME_WIDTH, FRAME_HEIGHT),
                             end - start + 1, AVAILABLE_FRAMES, 0, 0, tie)} :
       \E err \in {IF ~f.found THEN "UnboundLocalError"
                   ELSE IF f.cols * f.rows - 1 = 0 THEN "ZeroDivisionError" ELSE "none"} :
       \E r \in {IF err = "none"
                 THEN TopDev(TOTAL_FRAMES, TOTAL_IMAGES, ALGORITHM, deadzones,
                             PreviewImage(start, end, f.cols * f.rows), iter)
                 ELSE Ret([image |-> image, iter |-> iter, err |-> err, log |-> <<>>],
                          0, <<0, 1>>)} :
           /\ image' = r.image
           /\ iter' = r.iter
           /\ log' = r.log
           /\ status' = After(r.err, "menu")
    /\ last' = Op("preview", 0, 0)
    /\ UNCHANGED <<prog, mode, GRID, ASPECT_RATIO, ALGORITHM, TOTAL_FRAMES, FRAME_WIDTH,
                   FRAME_HEIGHT, WIDTH, HEIGHT, COLS, ROWS, TOTAL_IMAGES, AVAILABLE_FRAMES,
                   deadzones, file, num_images>>

\* menu choice 5 of dev, lines 534-538
ChangeGrid(new_grid, tie) ==
    /\ status = "menu" /\ prog = "dev"
    /\ \E gr \in {set_grid(Geometry(WIDTH, HEIGHT, FRAME_WIDTH, FRAME_HEIGHT),
                           AVAILABLE_FRAMES, TOTAL_FRAMES, new_grid, tie)} :
       \E r \in {IF gr.err = "none" /\ gr.ok
                 THEN TopDev(TOTAL_FRAMES, gr.m, ALGORITHM, deadzones, image, iter)
                 ELSE Ret([image |-> image, iter |-> iter, err |-> gr.err, log |-> <<>>],
                          0, <<0, 1>>)} :
           /\ COLS' = IF gr.err = "none" THEN gr.cols ELSE COLS
           /\ ROWS' = IF gr.err = "none" THEN gr.rows ELSE ROWS
           /\ TOTAL_IMAGES' = IF gr.err = "none" THEN gr.m ELSE TOTAL_IMAGES
           /\ image' = r.image
           /\ iter' = r.iter
           /\ log' = r.log
           /\ status' = After(r.err, "menu")
    /\ last' = Op("grid", new_grid.cols, new_grid.rows)
    /\ UNCHANGED <<prog, mode, GRID, ASPECT_RATIO, ALGORITHM, TOTAL_FRAMES, FRAME_WIDTH,
                   FRAME_HEIGHT, WIDTH, HEIGHT, AVAILABLE_FRAMES, deadzones, file, num_images>>

\* the last menu choice: break
Exit ==
    /\ status = "menu"
    /\ status' = "done"
    /\ last' = Op("exit", 0, 0)
    /\ UNCHANGED <<prog, mode, GRID, ASPECT_RATIO, ALGORITHM, TOTAL_FRAMES, FRAME_WIDTH,
                   FRAME_HEIGHT, WIDTH, HEIGHT, COLS, ROWS, TOTAL_IMAGES, AVAILABLE_FRAMES,
                   deadzones, file, image, iter, num_images, log>>

\* the process has ended (normally, by sys.exit or by an uncaught exception):
\* its memory is gone
ProcessEnd ==
    /\ status \notin {"off", "menu", "algo_test"}
    /\ prog' = NoCommand.prog /\ mode' = NoCommand.mode
    /\ GRID' = NoCommand.GRID /\ ALGORITHM' = NoCommand.ALGORITHM
    /\ WIDTH' = 0 /\ HEIGHT' = 0
    /\ COLS' = 0 /\ ROWS' = 0
    /\ TOTAL_IMAGES' = Unbound
    /\ AVAILABLE_FRAMES' = 0
    /\ deadzones' = <<>>
    /\ image' = <<>>
    /\ iter' = 0
    /\ num_images' = 0
    /\ status' = "off"
    /\ log' = <<>>
    /\ last' = Op("none", 0, 0)
    /\ UNCHANGED <<ASPECT_RATIO, TOTAL_FRAMES, FRAME_WIDTH, FRAME_HEIGHT, file>>

Next ==
    \/ \E c \in CommandLines : \E tie \in Roundings(c.GRID) : Launchable(c) /\ StartupClaude(c, tie)
    \/ \E c \in CommandLines : \E tie \in Roundings(c.GRID) : Launchable(c) /\ StartupDev(c, tie)
    \/ AlgoTestStep
    \/ \E se \in UserFrames(TOTAL_FRAMES) : AddDeadzoneClaude(se[1], se[2])
    \/ \E se \in UserFrames(TOTAL_FRAMES) : AddDeadzoneDev(se[1], se[2])
    \/ \E se \in PreviewSpans(TOTAL_FRAMES) : PreviewClaude(se[1], se[2])
    \/ \E se \in PreviewSpans(TOTAL_FRAMES) : \E tie \in Rounding : PreviewDev(se[1], se[2], tie)
    \/ \E g \in NewGrids : \E tie \in Roundings(g) : ChangeGrid(g, tie)
    \/ Exit
    \/ ProcessEnd

Spec == Init /\ [][Next]_vars

SpecScenario == InitScenario /\ [][Next]_vars

\* ------------------------------------------- a session on a longer video
\* a video of LongFrames frames whose deadzone file does not exist yet
InitLong == InitOn({LongFrames})

\* the command lines of the session: interactive, a grid of one row
LongCommands ==
    {[prog |-> p, mode |-> "interactive", GRID |-> GridBoth(m, 1), ALGORITHM |-> a] :
        p \in Progs, m \in 2..LongFrames, a \in {0, 1, 2}}

\* "Enter start and end frames: " with start <= end
LongSpans == {se \in (0..(LongFrames - 1)) \X (0..(LongFrames - 1)) : se[1] <= se[2]}

\* start-up, menu choice 1, the last menu choice and the end of the process
NextLong ==
    \/ \E c \in LongCommands : Launchable(c) /\ StartupClaude(c, 0)
    \/ \E c \in LongCommands : Launchable(c) /\ StartupDev(c, 0)
    \/ \E se \in LongSpans : AddDeadzoneClaude(se[1], se[2])
    \/ \E se \in LongSpans : AddDeadzoneDev(se[1], se[2])
    \/ Exit
    \/ ProcessEnd

SpecLong == InitLong /\ [][NextLong]_vars

\* ------------------------------------------------- the Deadzone Store alone
\* the frames a user types into add_deadzone: the first frame and the last
\* six, which lie on both sides of the step from one digit to two
StoreFrame == {0} \cup ((MaxStoreFrame - 5)..MaxStoreFrame)

\* "Enter start and end frames: " with start <= end
StoreFrames == {se \in StoreFrame \X StoreFrame : se[1] <= se[2]}

\* a video of MaxStoreFrame + 1 frames whose deadzone file does not exist yet
InitStore == InitOn({MaxStoreFrame + 1})

\* load_deadzones() of a process that starts
StoreLoad ==
    /\ status = "off"
    /\ \E ld \in {load_deadzones(TOTAL_FRAMES, file)} :
           /\ AVAILABLE_FRAMES' = ld.AVAILABLE_FRAMES
           /\ deadzones' = ld.deadzones
    /\ status' = "loaded"
    /\ last' = Op("load", 0, 0)
    /\ UNCHANGED <<prog, mode, GRID, ASPECT_RATIO, ALGORITHM, TOTAL_FRAMES, FRAME_WIDTH,
                   FRAME_HEIGHT, WIDTH, HEIGHT, COLS, ROWS, TOTAL_IMAGES, file, image, iter,
                   num_images, log>>

\* add_deadzone(start, end), with the load_deadzones() that ends it; last
\* keeps the store as the call found it
StoreAdd(start, end) ==
    /\ status = "loaded"
    /\ \E f \in {[exists |-> TRUE, lines |-> add_deadzone(deadzones, start, end)]} :
       \E ld \in {load_deadzones(TOTAL_FRAMES, f)} :
           /\ file' = f
           /\ AVAILABLE_FRAMES' = ld.AVAILABLE_FRAMES
           /\ deadzones' = ld.deadzones
    /\ last' = [op |-> "add", start |-> start, end |-> end,
                 before |-> [deadzones |-> deadzones, file |-> file,
                             AVAILABLE_FRAMES |-> AVAILABLE_FRAMES]]
    /\ UNCHANGED <<prog, mode, GRID, ASPECT_RATIO, ALGORITHM, TOTAL_FRAMES, FRAME_WIDTH,
                   FRAME_HEIGHT, WIDTH, HEIGHT, COLS, ROWS, TOTAL_IMAGES, image, iter,
                   num_images, status, log>>

NextStore ==
    \/ StoreLoad
    \/ \E se \in StoreFrames : StoreAdd(se[1], se[2])
    \/ ProcessEnd

SpecStore == InitStore /\ [][NextStore]_vars

\* ------------------------------------------------ find_optimal_grid alone
\* the target ratios WIDTH:HEIGHT, the frame sizes and the targets
\* <<target_rows, target_cols>> (0 for None) the search is given
GridAspects == {<<16, 9>>, <<4, 3>>, <<1, 1>>, <<1, 3>>}
GridFrameDims == {<<4, 3>>, <<2, 3>>, <<16, 9>>}
GridTargets == {<<0, 0>>, <<1, 0>>, <<2, 0>>, <<0, 1>>, <<0, 2>>, <<0, 3>>}

\* the globals find_optimal_grid reads: AVAILABLE_FRAMES is 0..MaxAvailable
InitGrid ==
    /\ prog = NoCommand.prog /\ mode = NoCommand.mode
    /\ GRID = NoCommand.GRID /\ ALGORITHM = NoCommand.ALGORITHM
    /\ TOTAL_FRAMES = MaxAvailable
    /\ \E d \in GridFrameDims : FRAME_WIDTH = d[1] /\ FRAME_HEIGHT = d[2]
    /\ ASPECT_RATIO \in GridAspects
    /\ WIDTH = ASPECT_RATIO[1] /\ HEIGHT = ASPECT_RATIO[2]
    /\ COLS = 0 /\ ROWS = 0
    /\ TOTAL_IMAGES = Unbound
    /\ AVAILABLE_FRAMES \in 0..MaxAvailable
    /\ deadzones = <<>>
    /\ file = [exists |-> FALSE, lines |-> <<>>]
    /\ image = <<>>
    /\ iter = 0
    /\ num_images = 0
    /\ status = "grid"
    /\ log = <<>>
    /\ last = Op("none", 0, 0)

\* what a search left: its budget, its targets and whether it found a grid.
\* A process searches once (claude at line 369, 371, 375 or 378); its globals
\* COLS and ROWS are bound by the search alone.
Searched(available, target_rows, target_cols, f) ==
    [op |-> "find_optimal_grid", start |-> target_rows, end |-> target_cols,
     available |-> available, found |-> f.found]

\* claude, lines 43-67: find_optimal_grid(target_rows, target_cols)
FindOptimalGridClaude(target_rows, target_cols, tie) ==
    /\ status = "grid"
    /\ \E f \in {FindGridClaude(Geometry(WIDTH, HEIGHT, FRAME_WIDTH, FRAME_HEIGHT),
                                AVAILABLE_FRAMES, target_rows, target_cols, tie)} :
           /\ COLS' = IF f.found THEN f.cols ELSE COLS
           /\ ROWS' = IF f.found THEN f.rows ELSE ROWS
           /\ status' = IF f.found THEN "searched" ELSE "NameError"
           /\ last' = Searched(AVAILABLE_FRAMES, target_rows, target_cols, f)
    /\ prog' = "claude"
    /\ UNCHANGED <<mode, GRID, ASPECT_RATIO, ALGORITHM, TOTAL_FRAMES, FRAME_WIDTH,
                   FRAME_HEIGHT, WIDTH, HEIGHT, TOTAL_IMAGES, AVAILABLE_FRAMES, deadzones,
                   file, image, iter, num_images, log>>

\* dev, lines 47-73: find_optimal_grid(available_frames, target_rows, target_cols)
FindOptimalGridDev(available_frames, target_rows, target_cols, tie) ==
    /\ status = "grid"
    /\ \E f \in {FindGridDev(Geometry(WIDTH, HEIGHT, FRAME_WIDTH, FRAME_HEIGHT),
                             available_frames, AVAILABLE_FRAMES, target_rows, target_cols,
                             tie)} :
           /\ COLS' = IF f.found THEN f.cols ELSE COLS
           /\ ROWS' = IF f.found THEN f.rows ELSE ROWS
           /\ status' = IF f.found THEN "searched" ELSE "UnboundLocalError"
           /\ last' = Searched(IF available_frames = 0 THEN AVAILABLE_FRAMES
                               ELSE available_frames, target_rows, target_cols, f)
    /\ prog' = "dev"
    /\ UNCHANGED <<mode, GRID, ASPECT_RATIO, ALGORITHM, TOTAL_FRAMES, FRAME_WIDTH,
                   FRAME_HEIGHT, WIDTH, HEIGHT, TOTAL_IMAGES, AVAILABLE_FRAMES, deadzones,
                   file, image, iter, num_images, log>>

\* the searching process has ended, with its grid or by the uncaught
\* exception: its COLS and ROWS are gone
SearchEnd ==
    /\ status \in {"searched", "NameError", "UnboundLocalError"}
    /\ prog' = NoCommand.prog
    /\ COLS' = 0 /\ ROWS' = 0
    /\ status' = "grid"
    /\ last' = Op("none", 0, 0)
    /\ UNCHANGED <<mode, GRID, ASPECT_RATIO, ALGORITHM, TOTAL_FRAMES, FRAME_WIDTH,
                   FRAME_HEIGHT, WIDTH, HEIGHT, TOTAL_IMAGES, AVAILABLE_FRAMES, deadzones,
                   file, image, iter, num_images, log>>

NextGrid ==
    \/ \E t \in GridTargets : \E tie \in Rounding : FindOptimalGridClaude(t[1], t[2], tie)
    \/ \E a \in 0..MaxAvailable : \E t \in GridTargets : \E tie \in Rounding :
           FindOptimalGridDev(a, t[1], t[2], tie)
    \/ SearchEnd

SpecGrid == InitGrid /\ [][NextGrid]_vars

\* =============================================================== the claims
\* a top-level dist_images() has run to its end in the last operation
RunEnded == status \in {"menu", "done", "algo_test"} /\ log # <<>>

\* ... and it was not told to ignore the deadzones
Distributed == RunEnded /\ ~log[1].ignore_deadzones

Slots == 0..(Len(image) - 1)

InDeadzone(f) ==
    \E k \in 1..Len(deadzones) : deadzones[k][1] <= f /\ f <= deadzones[k][2]

\* the calls of the run whose slot range holds slot i
CallsOn(i) ==
    {k \in 1..Len(log) : /\ log[k].op = "call"
                          /\ Min(log[k].si, log[k].ei) <= i
                          /\ i <= Max(log[k].si, log[k].ei)}

\* the frame range of call k holds a frame outside every deadzone
LiveIn(k) ==
    \E f \in Min(log[k].sf, log[k].ef)..Max(log[k].sf, log[k].ef) : ~InDeadzone(f)

\* C1: after a complete top-level run, every slot whose sub-range holds a
\* frame outside all deadzones is assigned a frame outside all deadzones.
\* The sub-range of a slot is read as narrowly as the run allows: every call
\* that covered the slot had a live frame in its frame range.
C1_NoLiveAvoidableOverlap ==
    Distributed =>
        \A i \in Slots : (\A k \in CallsOn(i) : LiveIn(k)) => ~InDeadzone(At(image, i))

\* the selected deadzone of entry k holds a slot and has no space on either side
NoSpace(k) ==
    /\ log[k].op = "spaces"
    /\ log[k].dead_images > 0
    /\ log[k].spaces_left = 0
    /\ log[k].spaces_right = 0

\* C2: whenever the selected deadzone holds a slot and spaces_left = 0 and
\* spaces_right = 0, the run (of two slots or more) ends in the fatal exit,
\* under every strategy.
C2_UnsatisfiableLayout ==
    (TOTAL_IMAGES >= 2 /\ \E k \in 1..Len(log) : NoSpace(k)) => status = "exit"

\* what the same top-level call gives on an array reset to the sentinel and
\* an iteration counter of 0
FreshRun ==
    LET g == Dist(TOTAL_FRAMES, TOTAL_IMAGES, ALGORITHM, deadzones)
    IN  IF prog = "dev" THEN RunDev(g, <<>>, 0)
        ELSE RunClaude(g, Fresh(TOTAL_IMAGES, -1), 0,
                       IF log[1].ignore_deadzones THEN -1 ELSE 0)

\* C3: the assignment a top-level run ends with is the one the same call
\* gives on a freshly reset array, whatever earlier runs left behind.
C3_Determinism ==
    RunEnded => image = FreshRun.image

\* the single-slot calls of the run
Singles == {k \in 1..Len(log) : log[k].op = "single"}

NonDecreasing(img) == \A i \in 1..(Len(img) - 1) : img[i] <= img[i + 1]

\* C5: with an empty store and 2 <= M <= N, the assignment a top-level run
\* ends with is non-decreasing across the slot index.
C5_MonotoneNoDeadzones ==
    (RunEnded /\ deadzones = <<>> /\ 2 <= TOTAL_IMAGES /\ TOTAL_IMAGES <= TOTAL_FRAMES)
        => NonDecreasing(image)

\* a run of three slots or more over more frames than slots, no deadzone stored
C5_Witness ==
    /\ RunEnded /\ deadzones = <<>>
    /\ 3 <= TOTAL_IMAGES /\ TOTAL_IMAGES < TOTAL_FRAMES
    /\ Len(image) = TOTAL_IMAGES

\* the scenario: 100 frames, 5 slots
Scenario == TOTAL_FRAMES = 100 /\ TOTAL_IMAGES = 5 /\ Len(image) = 5

\* int(k * step + 0.5) for step = (99 - 0) / (4 - 0)
RoundHalfUp(k) == (2 * k * 99 + 4) \div 8

\* C6 as the claim states it: N = 100, no deadzones, M = 5 gives [0, 25, 50, 75, 99].
C6_EvenSpacingAsClaimed ==
    (RunEnded /\ Scenario /\ deadzones = <<>>) => image = <<0, 25, 50, 75, 99>>

\* C6: N = 100, no deadzones, M = 5 gives [0, 25, 50, 74, 99]: slot i gets
\* the round-half-up of i * step with step = 99 / 4 (3 * 24.75 = 74.25).
C6_EvenSpacing ==
    (RunEnded /\ Scenario /\ deadzones = <<>>) =>
        /\ image = <<0, 25, 50, 74, 99>>
        /\ \A i \in Slots : At(image, i) = RoundHalfUp(i)

\* the dev script has run the scenario without deadzones
C6_Witness ==
    RunEnded /\ Scenario /\ deadzones = <<>> /\ prog = "dev" /\ status = "menu"

\* the scenario with the one deadzone [40, 60], the deadzones looked at
ScenarioDeadzone == Distributed /\ Scenario /\ deadzones = <<<<40, 60>>>>

\* the first thing the run did after its even spacing: it found one slot (of
\* two on each side) on the deadzone [40, 60] and measured 40 and 39
MeasuredAsClaimed ==
    /\ Len(log) >= 2
    /\ log[2].op = "spaces" /\ log[2].depth = 0 /\ log[2].zone = <<40, 60>>
    /\ log[2].images_left = 2 /\ log[2].dead_images = 1 /\ log[2].images_right = 2
    /\ log[2].spaces_left = 40 /\ log[2].spaces_right = 39

NoneIn(lo, hi) == \A i \in Slots : ~(lo <= At(image, i) /\ At(image, i) <= hi)
SlotsIn(lo, hi) == {i \in Slots : lo <= At(image, i) /\ At(image, i) <= hi}

\* C7 as the claim states it: one slot is dead, the sides measure 40 and 39,
\* one slot is relocated into [0, 39] (which then holds three slots instead
\* of two) and no frame of [40, 60] is assigned.
C7_RelocationAsClaimed ==
    ScenarioDeadzone =>
        /\ MeasuredAsClaimed
        /\ Cardinality(SlotsIn(0, 39)) = 3
        /\ NoneIn(40, 60)

\* C7: one slot is dead, the sides measure 40 and 39 and no frame of
\* [40, 60] is assigned; the exhaustive searches move the dead slot into
\* [0, 39], the closed form (ALGORITHM 1 of the dev script) moves it to 61
\* and brings slot 1 up to 39.
C7_Relocation ==
    ScenarioDeadzone =>
        /\ MeasuredAsClaimed
        /\ NoneIn(40, 60)
        /\ prog = "claude" => image = <<0, 25, 39, 61, 99>>
        /\ prog = "dev" /\ ALGORITHM = 2 => image = <<0, 20, 39, 61, 99>>
        /\ prog = "dev" /\ ALGORITHM = 1 =>
               /\ image = <<0, 39, 61, 80, 99>>
               /\ log[3].op = "split" /\ log[3].move_left = 0 /\ log[3].move_right = 1

\* the dev script has run the scenario with its closed form
C7_Witness ==
    ScenarioDeadzone /\ prog = "dev" /\ ALGORITHM = 1 /\ status = "menu"

\* the frames a list of intervals covers
Covered(zs) == UNION {zs[k][1]..zs[k][2] : k \in 1..Len(zs)}

\* sorted by start, pairwise disjoint and never adjacent
Normalised(zs) ==
    /\ \A k \in 1..Len(zs) : zs[k][1] <= zs[k][2]
    /\ \A k \in 1..(Len(zs) - 1) : zs[k + 1][1] >= zs[k][2] + 2

\* the intervals the persisted text stands for
Persisted == IF file.exists THEN LoadedZones(file.lines) ELSE <<>>

\* C8: the store, in memory and as persisted, holds intervals sorted by
\* start, pairwise disjoint and never adjacent, and after add(start, end)
\* with start <= end it covers the frames it covered before plus [start, end].
C8_StoreNormalised ==
    /\ Normalised(deadzones)
    /\ Normalised(Persisted)
    /\ status = "loaded" => deadzones = Persisted
    /\ last.op = "add" =>
           Covered(deadzones) = Covered(last.before.deadzones) \cup (last.start..last.end)

\* an add of two-digit frames has joined an interval that ended on the frame
\* before it, another interval staying apart
C8_Witness ==
    /\ last.op = "add" /\ last.start >= 10
    /\ Len(deadzones) >= 2
    /\ \E k \in 1..Len(last.before.deadzones) :
           last.before.deadzones[k][2] = last.start - 1
    /\ \E k \in 1..Len(deadzones) :
           deadzones[k][1] < last.start /\ deadzones[k][2] = last.end

\* add(start, end) found [start, end] inside one stored interval
ContainedAdd ==
    /\ last.op = "add"
    /\ \E k \in 1..Len(last.before.deadzones) :
           /\ last.before.deadzones[k][1] <= last.start
           /\ last.end <= last.before.deadzones[k][2]

\* C9: add(start, end) with [start, end] inside a stored interval leaves the
\* store as it was, in memory and as persisted, and the available-frame count.
C9_ContainedAddIdempotent ==
    ContainedAdd =>
        /\ deadzones = last.before.deadzones
        /\ file = last.before.file
        /\ AVAILABLE_FRAMES = last.before.AVAILABLE_FRAMES

\* an add strictly inside the second of several stored intervals
C9_Witness ==
    /\ ContainedAdd
    /\ Len(deadzones) >= 2
    /\ deadzones[2][1] < last.start /\ last.end < deadzones[2][2]

\* C10: a grid that find_optimal_grid returns has cols * rows <= the
\* available-frame budget it was given.
C10_GridFeasible ==
    (last.op = "find_optimal_grid" /\ last.found) => COLS * ROWS <= last.available

\* a search of find_optimal_grid has just ended; last.start and last.end are
\* its target_rows and target_cols (0 for None)
Searching == last.op = "find_optimal_grid"
SearchGeometry == Geometry(WIDTH, HEIGHT, FRAME_WIDTH, FRAME_HEIGHT)

\* the grids of at least one column and one row within the budget
FeasibleGrids(available) ==
    {p \in (1..available) \X (1..available) : p[1] * p[2] <= available}

\* grid p is strictly nearer to the target ratio than grid r
Nearer(p, r) ==
    FracLess(RatioDiff(SearchGeometry, p[1], p[2]), RatioDiff(SearchGeometry, r[1], r[2]))

\* C11: with no axis fixed, the grid a search returns is one of the grids
\* with cols >= 1, rows >= 1 and cols * rows <= available, and none of those
\* grids has a strictly smaller diff: no early break skipped a better one.
C11_GridOptimal ==
    (Searching /\ last.found /\ last.start = 0 /\ last.end = 0) =>
        /\ <<COLS, ROWS>> \in FeasibleGrids(last.available)
        /\ \A p \in FeasibleGrids(last.available) : ~Nearer(p, <<COLS, ROWS>>)

\* C12: a search given target_cols = c returns a grid of c columns; a search
\* given target_rows = r returns a grid of r rows.
C12_FixedAxis ==
    (Searching /\ last.found) =>
        /\ last.end # 0 => COLS = last.end
        /\ last.start # 0 => ROWS = last.start

\* the range the search walks: the row counts y, for each the column counts
\* from start_x to end_x; of these the grids within the budget
SearchedRows == IF last.start # 0 THEN {last.start} ELSE 1..last.available
SearchedCols(y) ==
    StartX(SearchGeometry, y)..(IF last.end # 0 THEN last.end ELSE last.available \div y)
Candidates ==
    {p \in UNION {{<<x, y>> : x \in SearchedCols(y)} : y \in SearchedRows} :
        p[1] * p[2] <= last.available}
SearchErrors == {"NameError", "UnboundLocalError"}

C17_GridPositive ==
    (Searching /\ last.found /\ last.available >= 1) => COLS >= 1 /\ ROWS >= 1

\* C14: a distribution run is started only with 2 <= M and M no greater than
\* the available frames; any other grid ends the process before a run.
C14_ConfigurationError ==
    log # <<>> => (2 <= TOTAL_IMAGES /\ TOTAL_IMAGES <= AVAILABLE_FRAMES)

\* the calls of the run, and the recursive ones among them
Calls == {k \in 1..Len(log) : log[k].op = "call"}
Recursive == {k \in Calls : log[k].depth > 0}
\* the width of the frame span of call k and of its caller's
Span(k) == Max(log[k].sf, log[k].ef) - Min(log[k].sf, log[k].ef)
CallerSpan(k) == log[k].pmax - log[k].pmin

\* C15: a top-level run ends without exhausting the call stack; every
\* recursive call is made on a frame span strictly smaller than its caller's,
\* and no call nests deeper than the number of stored deadzones.
C15_Termination ==
    /\ status # "RecursionError"
    /\ \A k \in Recursive : /\ Span(k) < CallerSpan(k)
                            /\ log[k].depth <= Len(deadzones)

\* the top-level run of the last operation has returned normally
Returned == RunEnded /\ Len(image) = TOTAL_IMAGES

\* C16: after a top-level run that returned normally, every slot 0..M-1
\* holds a frame of 0..N-1.
C16_SlotsInRange ==
    Returned => \A i \in Slots : 0 <= At(image, i) /\ At(image, i) <= TOTAL_FRAMES - 1

\* a run over a stored deadzone at either edge of the video has returned
\* normally: its recursive calls began at dead_hi + 1 or dead_lo - 1
C16_Witness ==
    /\ Returned /\ TOTAL_IMAGES >= 3
    /\ \E k \in 1..Len(deadzones) :
           deadzones[k][1] = 0 \/ deadzones[k][2] = TOTAL_FRAMES - 1
    /\ \E k \in Recursive : log[k].kind \in {"left", "right", "corr"}

\* the run of FreshRun with the early exit of the even-spacing walk left out
PlainRun ==
    LET g == [Dist(TOTAL_FRAMES, TOTAL_IMAGES, ALGORITHM, deadzones) EXCEPT !.early_exit = FALSE]
    IN  IF prog = "dev" THEN RunDev(g, <<>>, 0)
        ELSE RunClaude(g, Fresh(TOTAL_IMAGES, -1), 0,
                       IF log[1].ignore_deadzones THEN -1 ELSE 0)

\* C18: a top-level run on a freshly reset array that returns normally gives
\* the assignment that the same run without the early exit gives.
C18_EarlyExitShortcut ==
    (RunEnded /\ FreshRun.err = "none") =>
        PlainRun.err = "none" /\ PlainRun.image = FreshRun.image

\* the entries of the run where a move split was decided: the counts and
\* spaces at k, the split at k + 1
Splits ==
    {k \in 1..(Len(log) - 1) : log[k].op = "spaces" /\ log[k + 1].op = "split"}
\* the strategy of the run is the exhaustive balance search
Exhaustive == prog = "claude" \/ ALGORITHM = 2
\* raw index distances from the selected deadzone to the ends of the range
RawLeft(k) == log[k].zone[1] - log[k].minf
RawRight(k) == log[k].maxf - log[k].zone[2]
\* the smallest move_left of 0..dead_images that minimises the squared
\* density difference over the raw distances
DensestSplit(k) ==
    BestMoveLeft([m \in 0..log[k].dead_images |->
                    DensityDiff(log[k], RawLeft(k), RawRight(k), m)])

\* C19: under the exhaustive balance search, when both raw distances
\* dead_lo - min_frame and max_frame - dead_hi are positive, the chosen
\* move_left is the smallest minimiser of the squared density difference
\* over these distances, and move_right = dead_count - move_left.
C19_ExhaustiveBalance ==
    \A k \in Splits :
        (Exhaustive /\ RawLeft(k) > 0 /\ RawRight(k) > 0) =>
            /\ log[k + 1].move_left = DensestSplit(k)
            /\ log[k + 1].move_right = log[k].dead_images - log[k + 1].move_left

\* C20: under every strategy, when exactly one side of the selected deadzone
\* has space, all dead slots move to that side: spaces_left = 0 and
\* spaces_right > 0 gives move_left = 0 and move_right = dead_count;
\* spaces_right = 0 and spaces_left > 0 gives move_left = dead_count and
\* move_right = 0.
C20_DegenerateSplit ==
    \A k \in Splits :
        /\ (log[k].spaces_left = 0 /\ log[k].spaces_right > 0) =>
               /\ log[k + 1].move_left = 0
               /\ log[k + 1].move_right = log[k].dead_images
        /\ (log[k].spaces_right = 0 /\ log[k].spaces_left > 0) =>
               /\ log[k + 1].move_left = log[k].dead_images
               /\ log[k + 1].move_right = 0

\* the entries of the run where a call took up a deadzone that holds a slot
Selections == {k \in 1..Len(log) : log[k].op = "spaces"}
\* the deadzones that intersect the frame range of the call of entry k
ZonesOf(k) == {log[k].cands[j] : j \in 1..Len(log[k].cands)}
\* twice the distance from the midpoint of z to the midpoint of the range
MidDist2(z, k) == Abs(z[1] + z[2] - (log[k].minf + log[k].maxf))

\* C21: the deadzone a call processes is, among the deadzones intersecting
\* [min_frame, max_frame], one of largest length, and among the equally long
\* ones one whose midpoint is closest to the midpoint of the range.
C21_DeadzoneSelection ==
    \A k \in Selections : \A y \in ZonesOf(k) :
        \/ ZoneLen(y) < ZoneLen(log[k].zone)
        \/ /\ ZoneLen(y) = ZoneLen(log[k].zone)
           /\ MidDist2(log[k].zone, k) <= MidDist2(y, k)

\* the calls made by the call that decided the split of entries k, k + 1:
\* the calls one level deeper that follow before the run is back at the
\* level of entry k
SubCalls(k) ==
    {j \in (k + 2)..Len(log) :
        /\ log[j].op = "call"
        /\ log[j].depth = log[k].depth + 1
        /\ \A i \in (k + 2)..(j - 1) : log[i].depth > log[k].depth}
SubCallsOf(k, kind) == {j \in SubCalls(k) : log[j].kind = kind}

\* C22: in a run that returns normally, a call that found dead slots makes
\* its left call first and only if move_left > 0, then its right call, and
\* after them the corrective left call whenever move_left = 0 and a slot is
\* classified left; with move_left > 0 it makes no corrective call.
C22_CorrectionOrder ==
    RunEnded =>
        \A k \in Splits :
            /\ \A l \in SubCallsOf(k, "left") :
                   /\ log[k + 1].move_left > 0
                   /\ \A j \in SubCalls(k) : j >= l
            /\ \A r \in SubCallsOf(k, "right") :
                   \A c \in SubCallsOf(k, "corr") : r < c
            /\ (log[k + 1].move_left = 0 /\ log[k].images_left > 0) =>
                   SubCallsOf(k, "corr") # {}
            /\ log[k + 1].move_left > 0 => SubCallsOf(k, "corr") = {}

\* a run that returned normally where one call made a left call and then a
\* right call, and one call made a right call and then the corrective left call
C22_Witness ==
    /\ RunEnded
    /\ \E k \in Splits :
           /\ log[k + 1].move_left > 0
           /\ SubCallsOf(k, "left") # {} /\ SubCallsOf(k, "right") # {}
    /\ \E k \in Splits :
           /\ log[k + 1].move_left = 0 /\ log[k].images_left > 0
           /\ SubCallsOf(k, "right") # {} /\ SubCallsOf(k, "corr") # {}

\* (frame_lo + frame_hi) / 2 rounded half-up to an integer
HalfUpMid(frame_lo, frame_hi) == FloorDiv(frame_lo + frame_hi + 1, 2)

\* C23: a single-slot call whose slot holds a frame f with 0 < f < N - 1
\* sets the slot to (frame_lo + frame_hi) / 2 rounded half-up.
C23_SingleSlotRecentring ==
    \A k \in Singles :
        (0 < log[k].before /\ log[k].before < TOTAL_FRAMES - 1) =>
            log[k].after = HalfUpMid(log[k].sf, log[k].ef)

\* C24: a run of dist_images, single-slot calls, zero-width frame ranges and
\* an empty deadzone list included, ends with an assignment or in the fatal
\* exit of the deadzone without adjacent space, and in no other error.
C24_ValidInputs ==
    log # <<>> => status \in {"menu", "done", "algo_test", "exit"}

\* a step of menu choice 2 that comes back to the menu
PreviewStep == status = "menu" /\ last'.op = "preview" /\ status' = "menu"

\* C25: an intermediate preview leaves the main grid as it is, and the main
\* slot assignment that the next montage is generated from is the assignment
\* that was in force before the preview.
C25_PreviewScoped ==
    [][PreviewStep =>
          /\ COLS' = COLS /\ ROWS' = ROWS /\ TOTAL_IMAGES' = TOTAL_IMAGES
          /\ image' = image]_vars

\* C26: the assignment a top-level run over a store that holds a deadzone
\* returns normally with is non-decreasing across the slot index, under
\* every strategy.
C26_ChronologicalOrder ==
    (Returned /\ deadzones # <<>>) => NonDecreasing(image)

\* C27: after a top-level run of two slots or more that returned normally,
\* slot 0 holds frame 0 when frame 0 lies in no deadzone, and slot M - 1
\* holds frame N - 1 when frame N - 1 lies in no deadzone.
C27_EndpointsShown ==
    (Returned /\ TOTAL_IMAGES >= 2) =>
        /\ ~InDeadzone(0) => At(image, 0) = 0
        /\ ~InDeadzone(TOTAL_FRAMES - 1) =>
               At(image, TOTAL_IMAGES - 1) = TOTAL_FRAMES - 1

====
